---- MODULE Spec2Model ----
(***************************************************************************)
(* Model of the graph node of mapillary-js (src/src/graph/Node.ts): its    *)
(* asset cache, its graph attributes, and keyboard navigation over it.     *)
(*                                                                         *)
(* One Node is modelled together with the cacheAssets invocations made on  *)
(* it.  cacheAssets combines two cold observables, cacheImage and          *)
(* cacheMesh, with combineLatest; each of them is driven by the events of  *)
(* an XMLHttpRequest (and, for the image, of the HTMLImageElement that     *)
(* decodes the payload).  Every event handler of the source is one action; *)
(* a handler runs to completion (single-threaded event loop), so the       *)
(* subscriber calls it makes, the combine function they trigger and the    *)
(* completion or error they propagate are part of the same step.           *)
(*                                                                         *)
(* Invocations on the node are serialized: a new cacheAssets subscription  *)
(* is made only when the previous one has delivered its terminal event.    *)
(*                                                                         *)
(* Specifications:                                                         *)
(*   Spec      the asset cache of a node (cacheAssets and its requests);   *)
(*   SpecNode  the same node with its graph attributes: edges assigned    *)
(*             through the setter, the cached flag set by the caller, the  *)
(*             size class of the image request;                            *)
(*   SpecEdges the edges of a node of any merge version, next to its asset *)
(*             cache and its sequence lookups;                             *)
(*   SpecNav   keyboard navigation on the current node                     *)
(*             (src/unnamed/part_003, KeyboardComponent);                  *)
(*   SpecSeq   the sequence lookups of a node.                             *)
(* Angles are integers in degrees (Pi is 180), so that quarter and half    *)
(* turns are exact.                                                        *)
(***************************************************************************)
EXTENDS Integers, Sequences, FiniteSets, TLC

\* ---------------------------------------------------------------- bounds
\* Number of cacheAssets invocations made on the node.
MaxInvocations == 2
\* Number of progress events a single XMLHttpRequest fires before it ends.
MaxProgress == 1
\* Largest number of bytes an event reports as loaded.
MaxBytes == 1

\* Number of edges of the current node.
MaxEdges == 2
\* Number of keys of a sequence.
MaxSequence == 3
\* Full turns, either way, of the angles given to wrapAngle.
MaxTurns == 1
\* Times wrapAngle is applied to its own result.
MaxWraps == 2
\* Quarter turns, either way, of a rotation about a coordinate axis.
MaxQuarterTurns == 3
\* Number of positions of a polygon.
MaxPositions == 4
\* Number of calls made on a polygon geometry after its construction.
MaxCalls == 2
\* Calls made on an outline tag after its construction.
MaxTagCalls == 1
\* Assignments made to the edges of a node.
MaxEdgeWrites == 2

\* ------------------------------------------------------ program constants
\* this._loadStatus = { loaded: 0, total: 100 }
InitialTotal == 100
\* xmlHTTP.status === 200
StatusOk == 200
\* Math.PI, in degrees.
Pi == 180
\* event.keyCode of the arrow keys.
KeyLeft == 37
KeyUp == 38
KeyRight == 39
KeyDownArrow == 40

\* ----------------------------------------------------------------- values
\* JavaScript null.
Null == [kind |-> "null"]
\* combineLatest's marker of a source that has not emitted yet.
NONE == [kind |-> "none"]
\* let img = new Image(), one per cacheImage subscription.
Image(n) == [kind |-> "image", id |-> n]
\* let mesh = { faces: [], vertices: [] }
EmptyMesh == [faces |-> <<>>, vertices |-> <<>>]
\* The mesh MeshReader.read decodes from a payload: a mesh with geometry.
ReadMesh == [faces |-> <<0, 1, 2>>, vertices |-> <<0, 0, 0, 1, 0, 0, 0, 1, 0>>]

\* ILoadStatus and ILoadStatusObject.
LoadStatus(l, t) == [loaded |-> l, total |-> t]
LoadStatusObject(l, t, o) == [loaded |-> LoadStatus(l, t), object |-> o]

\* merge_version of the node's apiNavImIm: {} is null, {v} is the number v.
MergeVersions == {{}, {0}, {1}}
\* The (loaded, total) pairs the events of a request can carry: total is the
\* length of the payload, the same in every event of one request (the image
\* and the mesh payload differ in length), loaded never decreases.
ImageEvents == [loaded : 0..MaxBytes, total : {MaxBytes}]
MeshEvents == [loaded : 0..MaxBytes, total : {MaxBytes + 1}]
\* xmlHTTP.status of a loaded request: success, or a non-success status.
Statuses == {StatusOk, 404}

\* JavaScript undefined.
Undefined == [kind |-> "undefined"]
\* apiNavImIm.gpano: null, or the pixel counts of the (cropped) panorama;
\* each count is {} when null and {n} when it is the number n.
GpanoUnsized ==
    [CroppedAreaLeftPixels |-> {0}, CroppedAreaTopPixels |-> {0},
     CroppedAreaImageWidthPixels |-> {}, CroppedAreaImageHeightPixels |-> {},
     FullPanoWidthPixels |-> {}, FullPanoHeightPixels |-> {}]
GpanoCropped ==
    [CroppedAreaLeftPixels |-> {0}, CroppedAreaTopPixels |-> {1},
     CroppedAreaImageWidthPixels |-> {4}, CroppedAreaImageHeightPixels |-> {1},
     FullPanoWidthPixels |-> {4}, FullPanoHeightPixels |-> {2}]
GpanoFull ==
    [CroppedAreaLeftPixels |-> {0}, CroppedAreaTopPixels |-> {0},
     CroppedAreaImageWidthPixels |-> {4}, CroppedAreaImageHeightPixels |-> {2},
     FullPanoWidthPixels |-> {4}, FullPanoHeightPixels |-> {2}]
Gpanos == {Null, GpanoUnsized, GpanoCropped, GpanoFull}

\* Node keys.
Keys == 1..(MaxSequence + 1)
\* A Sequence object with its ordered keys.
SequenceOf(keys) == [kind |-> "sequence", keys |-> keys]
\* The key lists of a sequence: no key twice, at most MaxSequence keys.
KeyLists ==
    {l \in UNION {[1..n -> Keys] : n \in 0..MaxSequence} :
        \A i, j \in DOMAIN l : i # j => l[i] # l[j]}
\* What the constructor can be given as the sequence.
Sequences == {Undefined, Null} \cup {SequenceOf(l) : l \in KeyLists}

\* ImageSize classes of Settings.
BaseImageSize == "baseImageSize"
BasePanoramaSize == "basePanoramaSize"

VARIABLES
    mergeVersion,   \* apiNavImIm.merge_version
    image,          \* node._image
    mesh,           \* node._mesh
    loadStatus,     \* node._loadStatus
    invocations,    \* number of cacheAssets subscriptions made so far
    outcome,        \* of the current invocation: "none", "pending", "complete", "error",
                    \*   "unsubscribed"
    emitted,        \* number of node emissions delivered to the subscriber
    imgXhr,         \* image request: "unsent", "sent", "decoding", "done", "decodeError", "netError"
    imgProgress,    \* progress events the image request has fired
    imgE,           \* the load event e captured by img.onload
    imgLatest,      \* combineLatest's latest value of cacheImage
    imgDone,        \* cacheImage has completed
    imgHist,        \* the emissions of cacheImage, in order
    meshXhr,        \* mesh request: "unsent", "sent", "done", "netError"
    meshProgress,   \* progress events the mesh request has fired
    meshStatus,     \* xmlHTTP.status of the mesh request when it loaded
    meshLatest,     \* combineLatest's latest value of cacheMesh
    meshDone,       \* cacheMesh has completed
    meshHist,       \* the emissions of cacheMesh, in order
    snapshot,       \* image, mesh and loadStatus when the invocation started
    writes,         \* runs of the combine function in the current invocation
    meshRequests,   \* mesh transport requests issued for the node
    completedOnce,  \* some invocation has completed with image and mesh set
    gpano,          \* apiNavImIm.gpano
    nodeKey,        \* node._key
    sequence,       \* node._sequence
    edges,          \* node._edges: {} is null, {list} is the assigned list
    edgeWrites,     \* assignments made through the edges setter
    cached,         \* node.cached
    imgSize,        \* size class the image request of the invocation asked for
    lookup,         \* the last sequence lookup made on the node and its result
    camera,         \* frame.state.camera
    keyEvent,       \* the last keydown event handled
    prevented,      \* event.preventDefault() was called for it
    keyThrew,       \* handling it raised a TypeError
    angleNow,       \* an angle, in degrees, and
    angleBefore,    \*   what it was before wrapAngle was applied last
    wraps,          \* times wrapAngle has been applied to it
    vectorNow,      \* a vector, and
    startVector,    \*   what it was before it was rotated
    rotation,       \* the angle-axis rotation applied to it
    rotations,      \* 0, 1 after rotating by it, 2 after rotating back
    input,          \* the array given to new PolygonGeometry
    aliased,        \* the positions of the geometry that are arrays of the input
    geom,           \* geometry._polygon: {} when the constructor threw, else {positions}
    geomBefore,     \* geom before the last call
    call,           \* the last call on the geometry, whether it threw and notified
    calls,          \* number of calls made on the geometry
    tag,            \* the outline tag's option properties: {} before it is made
    tagBefore,      \* tag before the last call on it
    optionsGiven,   \* the options argument of the last setOptions call
    optionCalls,    \* setOptions calls made
    setterCalls,    \* property setter calls made
    changed,        \* values delivered by the tag's _notifyChanged$
    requests        \* navigator calls made while handling it, in order

nodeVars == <<mergeVersion, image, mesh, loadStatus>>
imgVars == <<imgXhr, imgProgress, imgE, imgLatest, imgDone, imgHist>>
meshVars == <<meshXhr, meshProgress, meshStatus, meshLatest, meshDone, meshHist>>
graphVars == <<gpano, nodeKey, sequence, edges, edgeWrites, cached>>
navVars == <<lookup, camera, keyEvent, prevented, keyThrew, requests>>
wrapVars == <<angleNow, angleBefore, wraps>>
rotateVars == <<vectorNow, startVector, rotation, rotations>>
\* What no operation on the node or the keyboard touches.
polyVars == <<input, aliased, geom, geomBefore, call, calls>>
\* The tag geometry and the tag.
tagVars == <<tag, tagBefore, optionsGiven, optionCalls, setterCalls, changed>>
editVars == <<polyVars, tagVars>>
restVars == <<wrapVars, rotateVars, editVars>>
cacheVars == <<mergeVersion, image, mesh, loadStatus, invocations, outcome, emitted,
               imgXhr, imgProgress, imgE, imgLatest, imgDone, imgHist,
               meshXhr, meshProgress, meshStatus, meshLatest, meshDone, meshHist,
               snapshot, writes, meshRequests, completedOnce, imgSize>>
vars == <<mergeVersion, image, mesh, loadStatus, invocations, outcome, emitted,
          imgXhr, imgProgress, imgE, imgLatest, imgDone, imgHist,
          meshXhr, meshProgress, meshStatus, meshLatest, meshDone, meshHist,
          snapshot, writes, meshRequests, completedOnce,
          gpano, nodeKey, sequence, edges, edgeWrites, cached, imgSize,
          lookup, camera, keyEvent, prevented, keyThrew, requests,
          angleNow, angleBefore, wraps, vectorNow, startVector, rotation, rotations,
          input, aliased, geom, geomBefore, call, calls,
          tag, tagBefore, optionsGiven, optionCalls, setterCalls, changed>>

\* ------------------------------------------------------------ Node getters
\* get merged(): merge_version != null && merge_version > 0 (apiNavImIm is
\* never null: the constructor reads apiNavImIm.key).
MergedLax(mv) == mv # {} /\ \E v \in mv : v >= 0
Merged(mv) == mv # {} /\ \E v \in mv : v > 0

\* get loaded(): this.cached && this._image != null
LoadedCachedOnly(c, im) == c
Loaded(c, im) == c /\ im # Null

\* get pano(): gpano != null && gpano.FullPanoWidthPixels != null
Pano(g) == g # Null /\ g.FullPanoWidthPixels # {}

\* get fullPano(): gpano != null, nothing cropped at the left and the top,
\* and the cropped area as wide and as high as the full panorama.
FullPano(g) ==
    /\ g # Null
    /\ g.CroppedAreaLeftPixels = {0}
    /\ g.CroppedAreaTopPixels = {0}
    /\ g.CroppedAreaImageWidthPixels = g.FullPanoWidthPixels
    /\ g.CroppedAreaImageHeightPixels = g.FullPanoHeightPixels

\* cacheImage: this.fullPano ? Settings.basePanoramaSize : Settings.baseImageSize
ImageSizeByPano(g) == IF Pano(g) THEN BasePanoramaSize ELSE BaseImageSize
ImageSize(g) == IF FullPano(g) THEN BasePanoramaSize ELSE BaseImageSize

\* ------------------------------------------------------------- emissions
\* xmlHTTP.onprogress: subscriber.next({loaded: {...}, object: null})
ProgressEmission(e) == LoadStatusObject(e.loaded, e.total, Null)

\* img.onload: subscriber.next({ loaded: {e.loaded, e.total}, object: img })
ImageEmission(e, img) == LoadStatusObject(e.loaded, e.total, img)

\* cacheMesh onload: the mesh is read only when the status is 200.
MeshObjectAlwaysRead(status) == ReadMesh
MeshObject(status) == IF status = StatusOk THEN ReadMesh ELSE EmptyMesh

\* cacheMesh of a node that is not merged.
NotMergedEmission == LoadStatusObject(0, 0, EmptyMesh)

\* Last loaded byte count an emission sequence reported (0 before any).
LastLoaded(hist) == IF hist = <<>> THEN 0 ELSE hist[Len(hist)].loaded.loaded

\* ---------------------------------------------------------- combineLatest
\* combineLatest calls the project function once every source has a value.
CombineReady(il, ml) == il # NONE /\ ml # NONE

\* combineLatest completes when every source has completed.
CombineCompleteEither(idone, mdone) == idone \/ mdone
CombineComplete(idone, mdone) == idone /\ mdone

\* The project function of cacheAssets: the node fields it leaves behind,
\* given the current loadStatus (reset first) and the two latest values.
CombineNoReset(ls, im, me) ==
    [image |-> im.object,
     mesh |-> me.object,
     loadStatus |-> LoadStatus(ls.loaded + me.loaded.loaded + im.loaded.loaded,
                               ls.total + me.loaded.total + im.loaded.total)]
CombineImageOnly(ls, im, me) ==
    [image |-> im.object,
     mesh |-> me.object,
     loadStatus |-> LoadStatus(im.loaded.loaded, im.loaded.total)]
Combine(ls, im, me) ==
    LET reset == LoadStatus(0, 0)
        afterMesh == IF me # NONE
                     THEN LoadStatus(reset.loaded + me.loaded.loaded,
                                     reset.total + me.loaded.total)
                     ELSE reset
        afterImage == IF im # NONE
                      THEN LoadStatus(afterMesh.loaded + im.loaded.loaded,
                                      afterMesh.total + im.loaded.total)
                      ELSE afterMesh
    IN  [image |-> IF im # NONE THEN im.object ELSE image,
         mesh |-> IF me # NONE THEN me.object ELSE mesh,
         loadStatus |-> afterImage]

\* A notification of the CombineLatestSubscriber: the latest values and the
\* completion flags after an inner emission (and the completion following
\* it); the project function runs when both sources have a value, and the
\* node it returns is emitted; the result completes when both have completed.
Notify(il, ml, idone, mdone) ==
    /\ imgLatest' = il
    /\ meshLatest' = ml
    /\ imgDone' = idone
    /\ meshDone' = mdone
    /\ IF CombineReady(il, ml)
       THEN LET n == Combine(loadStatus, il, ml)
            IN  /\ image' = n.image
                /\ mesh' = n.mesh
                /\ loadStatus' = n.loadStatus
                /\ writes' = writes + 1
                /\ emitted' = emitted + 1
       ELSE UNCHANGED <<image, mesh, loadStatus, writes, emitted>>
    /\ outcome' = IF CombineComplete(idone, mdone) THEN "complete" ELSE outcome
    /\ completedOnce' = (completedOnce \/
                         (CombineComplete(idone, mdone) /\ image' # Null /\ mesh' # Null))

\* The inner subscribers accept events while the combined subscription is
\* live: an errored (or completed) subscription has unsubscribed them.
LiveAfterError == outcome \in {"pending", "error"}
LiveAfterUnsubscribe == outcome \in {"pending", "unsubscribed"}
Live == outcome = "pending"

\* ------------------------------------------------------------------- Init
\* this._edges = null
ConstructedEdges == {}

\* No sequence lookup has been made yet.
NoCall == [op |-> "none", threw |-> FALSE, result |-> {}]
\* No keydown event has been handled yet.
NoEvent == [keyCode |-> 0, shiftKey |-> FALSE, altKey |-> FALSE]

\* new Node(ca, latLon, worthy, sequence, apiNavImIm, hs), with apiNavImIm
\* holding merge_version mv, gpano g and key k: no image, no mesh, no edges,
\* not cached, loadStatus 0/100; nothing has been requested.
Constructed(mv, g, k, sq) ==
    /\ mergeVersion = mv
    /\ gpano = g
    /\ nodeKey = k
    /\ sequence = sq
    /\ image = Null
    /\ mesh = Null
    /\ edgeWrites = 0
    /\ cached = FALSE
    /\ loadStatus = LoadStatus(0, InitialTotal)
    /\ invocations = 0
    /\ outcome = "none"
    /\ emitted = 0
    /\ imgSize = "none"
    /\ imgXhr = "unsent" /\ imgProgress = 0 /\ imgE = NONE
    /\ imgLatest = NONE /\ imgDone = FALSE /\ imgHist = <<>>
    /\ meshXhr = "unsent" /\ meshProgress = 0 /\ meshStatus = 0
    /\ meshLatest = NONE /\ meshDone = FALSE /\ meshHist = <<>>
    /\ snapshot = [image |-> Null, mesh |-> Null,
                   loadStatus |-> LoadStatus(0, InitialTotal)]
    /\ writes = 0
    /\ meshRequests = 0
    /\ completedOnce = FALSE

Constructor(mv, g, k, sq) ==
    /\ Constructed(mv, g, k, sq)
    /\ edges = ConstructedEdges

\* A camera at the origin, up along z, looking at the point l.
CameraAt(l) == [position |-> <<0, 0, 0>>, lookat |-> l, up |-> <<0, 0, 1>>]

\* No key has been pressed and no lookup made; the camera looks along x.
\* No angle has been wrapped and no vector rotated.
WrapIdle == angleNow = 0 /\ angleBefore = 0 /\ wraps = 0
RotateIdle ==
    /\ vectorNow = <<0, 0, 0>> /\ startVector = <<0, 0, 0>>
    /\ rotation = <<0, 0, 0>> /\ rotations = 0
\* A call record: the method, its index and value arguments, whether it
\* threw GeometryTagError and how often it notified a change.
Called(o, i, v, t, n) ==
    [op |-> o, index |-> i, value |-> v, threw |-> t, notified |-> n]
\* No polygon geometry has been asked for.
PolyIdle ==
    /\ input = <<>> /\ aliased = {} /\ geom = {} /\ geomBefore = {}
    /\ call = Called("none", 0, <<>>, FALSE, 0) /\ calls = 0
\* No outline tag has been made.
TagIdle ==
    /\ tag = {} /\ tagBefore = {} /\ optionsGiven = <<>>
    /\ optionCalls = 0 /\ setterCalls = 0 /\ changed = 0
EditIdle == PolyIdle /\ TagIdle
RestIdle == WrapIdle /\ RotateIdle /\ EditIdle

NavIdle ==
    /\ lookup = NoCall
    /\ keyEvent = NoEvent
    /\ prevented = FALSE
    /\ keyThrew = FALSE
    /\ requests = <<>>

\* The asset cache: a node of any merge version, outside any sequence.
Init ==
    /\ \E mv \in MergeVersions : Constructor(mv, Null, 1, Undefined)
    /\ camera = CameraAt(<<1, 0, 0>>)
    /\ NavIdle
    /\ RestIdle

\* ---------------------------------------------------------------- actions
\* cacheAssets().subscribe(...): combineLatest subscribes to cacheImage
\* (which sends the image request) and then to cacheMesh, which either
\* emits the empty mesh and completes at once or sends the mesh request.
CacheAssets ==
    /\ invocations < MaxInvocations
    /\ outcome # "pending"
    /\ invocations' = invocations + 1
    /\ outcome' = "pending"
    /\ emitted' = 0
    /\ snapshot' = [image |-> image, mesh |-> mesh, loadStatus |-> loadStatus]
    /\ writes' = 0
    /\ imgSize' = ImageSize(gpano)
    /\ imgXhr' = "sent" /\ imgProgress' = 0 /\ imgE' = NONE
    /\ imgLatest' = NONE /\ imgDone' = FALSE /\ imgHist' = <<>>
    /\ meshProgress' = 0 /\ meshStatus' = 0
    /\ IF ~Merged(mergeVersion)
       THEN /\ meshXhr' = "unsent"
            /\ meshLatest' = NotMergedEmission
            /\ meshHist' = <<NotMergedEmission>>
            /\ meshDone' = TRUE
            /\ UNCHANGED meshRequests
       ELSE /\ meshXhr' = "sent"
            /\ meshLatest' = NONE
            /\ meshHist' = <<>>
            /\ meshDone' = FALSE
            /\ meshRequests' = meshRequests + 1
    /\ UNCHANGED <<nodeVars, completedOnce>>
    /\ UNCHANGED <<graphVars, navVars, restVars>>

\* cacheImage: xmlHTTP.onprogress
ImageProgress ==
    /\ imgXhr = "sent"
    /\ imgProgress < MaxProgress
    /\ \E e \in ImageEvents :
        /\ e.loaded >= LastLoaded(imgHist)
        /\ imgProgress' = imgProgress + 1
        /\ IF Live
           THEN /\ imgHist' = Append(imgHist, ProgressEmission(e))
                /\ Notify(ProgressEmission(e), meshLatest, imgDone, meshDone)
           ELSE UNCHANGED <<imgHist, imgLatest, meshLatest, imgDone, meshDone,
                            image, mesh, loadStatus, writes, emitted, outcome,
                            completedOnce>>
    /\ UNCHANGED <<mergeVersion, invocations, imgXhr, imgE, meshXhr, meshProgress,
                   meshStatus, meshHist, snapshot, meshRequests>>
    /\ UNCHANGED <<graphVars, navVars, imgSize, restVars>>

\* cacheImage: xmlHTTP.onload installs img.onload and img.onerror and hands
\* the payload to the image element; nothing is emitted yet.
ImageLoad ==
    /\ imgXhr = "sent"
    /\ \E e \in ImageEvents :
        /\ e.loaded >= LastLoaded(imgHist)
        /\ imgE' = e
    /\ imgXhr' = "decoding"
    /\ UNCHANGED <<nodeVars, invocations, outcome, emitted, imgProgress, imgLatest,
                   imgDone, imgHist, meshVars, snapshot, writes, meshRequests,
                   completedOnce>>
    /\ UNCHANGED <<graphVars, navVars, imgSize, restVars>>

\* cacheImage: img.onload emits the image with the load event's counts and
\* completes.
ImageDecoded ==
    /\ imgXhr = "decoding"
    /\ imgXhr' = "done"
    /\ IF Live
       THEN /\ imgHist' = Append(imgHist, ImageEmission(imgE, Image(invocations)))
            /\ Notify(ImageEmission(imgE, Image(invocations)), meshLatest, TRUE, meshDone)
       ELSE UNCHANGED <<imgHist, imgLatest, meshLatest, imgDone, meshDone,
                        image, mesh, loadStatus, writes, emitted, outcome,
                        completedOnce>>
    /\ UNCHANGED <<mergeVersion, invocations, imgProgress, imgE, meshXhr, meshProgress,
                   meshStatus, meshHist, snapshot, meshRequests>>
    /\ UNCHANGED <<graphVars, navVars, imgSize, restVars>>

\* cacheImage: img.onerror calls subscriber.error, which combineLatest
\* passes on to the subscriber of cacheAssets; the subscription ends.
ImageDecodeError ==
    /\ imgXhr = "decoding"
    /\ imgXhr' = "decodeError"
    /\ outcome' = IF Live THEN "error" ELSE outcome
    /\ UNCHANGED <<nodeVars, invocations, emitted, imgProgress, imgE, imgLatest,
                   imgDone, imgHist, meshVars, snapshot, writes, meshRequests,
                   completedOnce>>
    /\ UNCHANGED <<graphVars, navVars, imgSize, restVars>>

\* The image request ends in a network error: cacheImage sets no
\* xmlHTTP.onerror, so no handler runs.
ImageXhrError ==
    /\ imgXhr = "sent"
    /\ imgXhr' = "netError"
    /\ UNCHANGED <<nodeVars, invocations, outcome, emitted, imgProgress, imgE,
                   imgLatest, imgDone, imgHist, meshVars, snapshot, writes,
                   meshRequests, completedOnce>>
    /\ UNCHANGED <<graphVars, navVars, imgSize, restVars>>

\* cacheMesh: xmlHTTP.onprogress
MeshProgress ==
    /\ meshXhr = "sent"
    /\ meshProgress < MaxProgress
    /\ \E e \in MeshEvents :
        /\ e.loaded >= LastLoaded(meshHist)
        /\ meshProgress' = meshProgress + 1
        /\ IF Live
           THEN /\ meshHist' = Append(meshHist, ProgressEmission(e))
                /\ Notify(imgLatest, ProgressEmission(e), imgDone, meshDone)
           ELSE UNCHANGED <<meshHist, imgLatest, meshLatest, imgDone, meshDone,
                            image, mesh, loadStatus, writes, emitted, outcome,
                            completedOnce>>
    /\ UNCHANGED <<mergeVersion, invocations, imgXhr, imgProgress, imgE, imgHist,
                   meshXhr, meshStatus, snapshot, meshRequests>>
    /\ UNCHANGED <<graphVars, navVars, imgSize, restVars>>

\* cacheMesh: xmlHTTP.onload emits the mesh read from the payload, or the
\* empty mesh when the status is not 200, and completes.
MeshLoad ==
    /\ meshXhr = "sent"
    /\ meshXhr' = "done"
    /\ \E e \in MeshEvents, status \in Statuses :
        /\ e.loaded >= LastLoaded(meshHist)
        /\ meshStatus' = status
        /\ LET em == LoadStatusObject(e.loaded, e.total, MeshObject(status))
           IN  IF Live
               THEN /\ meshHist' = Append(meshHist, em)
                    /\ Notify(imgLatest, em, imgDone, TRUE)
               ELSE UNCHANGED <<meshHist, imgLatest, meshLatest, imgDone, meshDone,
                                image, mesh, loadStatus, writes, emitted, outcome,
                                completedOnce>>
    /\ UNCHANGED <<mergeVersion, invocations, imgXhr, imgProgress, imgE, imgHist,
                   meshProgress, snapshot, meshRequests>>
    /\ UNCHANGED <<graphVars, navVars, imgSize, restVars>>

\* The mesh request ends in a network error: cacheMesh sets no
\* xmlHTTP.onerror, so no handler runs.
MeshXhrError ==
    /\ meshXhr = "sent"
    /\ meshXhr' = "netError"
    /\ UNCHANGED <<nodeVars, invocations, outcome, emitted, imgVars, meshProgress,
                   meshStatus, meshLatest, meshDone, meshHist, snapshot, writes,
                   meshRequests, completedOnce>>
    /\ UNCHANGED <<graphVars, navVars, imgSize, restVars>>

Next ==
    \/ CacheAssets
    \/ ImageProgress
    \/ ImageLoad
    \/ ImageDecoded
    \/ ImageDecodeError
    \/ ImageXhrError
    \/ MeshProgress
    \/ MeshLoad
    \/ MeshXhrError

Spec == Init /\ [][Next]_vars

\* subscription.unsubscribe() by the subscriber of the running invocation:
\* the combined subscription and with it the subscribers handed to
\* cacheImage and cacheMesh are stopped. Neither Observable.create callback
\* returns a teardown, so neither request is aborted and its events still
\* arrive.
Unsubscribe ==
    /\ outcome = "pending"
    /\ outcome' = "unsubscribed"
    /\ UNCHANGED <<mergeVersion, image, mesh, loadStatus, invocations, emitted,
                   imgVars, meshVars, snapshot, writes, meshRequests, completedOnce,
                   imgSize>>
    /\ UNCHANGED <<graphVars, navVars, restVars>>

NextUnsubscribe ==
    \/ CacheAssets
    \/ Unsubscribe
    \/ ImageProgress
    \/ ImageLoad
    \/ ImageDecoded
    \/ ImageDecodeError
    \/ ImageXhrError
    \/ MeshProgress
    \/ MeshLoad
    \/ MeshXhrError

\* The node with subscribers that may unsubscribe.
SpecUnsubscribe == Init /\ [][NextUnsubscribe]_vars

\* ------------------------------------------------- sequence lookups
\* Sequence.findNextKey(key) and Sequence.findPrevKey(key): the key after
\* and before the given one, null ({}) at the boundary or when the key is
\* not in the sequence.
FindNextKey(keys, k) ==
    {keys[i + 1] : i \in {j \in 1..(Len(keys) - 1) : keys[j] = k}}
FindPrevKey(keys, k) ==
    {keys[i - 1] : i \in {j \in 2..Len(keys) : keys[j] = k}}

\* A lookup that returned r, and one that raised a TypeError.
Returned(o, r) == [op |-> o, threw |-> FALSE, result |-> r]
Threw(o) == [op |-> o, threw |-> TRUE, result |-> {}]

\* node.findNextKeyInSequence(): null for an undefined sequence, else
\* this.sequence.findNextKey(this.key), which raises on a null sequence.
FindNextKeyInSequence ==
    /\ lookup' = IF sequence = Undefined THEN Returned("next", {})
                 ELSE IF sequence = Null THEN Threw("next")
                 ELSE Returned("next", FindNextKey(sequence.keys, nodeKey))
    /\ UNCHANGED <<cacheVars, graphVars, camera, keyEvent, prevented, keyThrew,
                   requests,
                   restVars>>

\* node.findPrevKeyInSequence()
FindPrevKeyInSequence ==
    /\ lookup' = IF sequence = Undefined THEN Returned("prev", {})
                 ELSE IF sequence = Null THEN Threw("prev")
                 ELSE Returned("prev", FindPrevKey(sequence.keys, nodeKey))
    /\ UNCHANGED <<cacheVars, graphVars, camera, keyEvent, prevented, keyThrew,
                   requests,
                   restVars>>

\* Nodes of any key, with any sequence or none.
InitSeq ==
    /\ \E k \in Keys, sq \in Sequences : Constructor({}, Null, k, sq)
    /\ camera = CameraAt(<<1, 0, 0>>)
    /\ NavIdle
    /\ RestIdle

NextSeq == FindNextKeyInSequence \/ FindPrevKeyInSequence

\* Sequence lookups on a node.
SpecSeq == InitSeq /\ [][NextSeq]_vars

\* ------------------------------------------------ the node in the graph
\* The edge lists assigned to a node.
BuiltEdgeLists ==
    {<<>>, <<[to |-> 2, data |-> [direction |-> "Next", worldMotionAzimuth |-> 0]]>>}

\* set edges(value) { this._edges = value; }: whatever the edges were.
SetEdges ==
    /\ edgeWrites < MaxEdgeWrites
    /\ \E l \in BuiltEdgeLists : edges' = {l}
    /\ edgeWrites' = edgeWrites + 1
    /\ UNCHANGED <<cacheVars, navVars, gpano, nodeKey, sequence, cached,
                   restVars>>

\* node.cached = true: the caller sets it when it has seen cacheAssets
\* complete.
SetCached ==
    /\ outcome = "complete"
    /\ ~cached
    /\ cached' = TRUE
    /\ UNCHANGED <<cacheVars, navVars, gpano, nodeKey, sequence, edges, edgeWrites,
                   restVars>>

\* Nodes without a merged mesh, perspective and panorama ones, second in a
\* sequence of three.
InitNode ==
    /\ \E mv \in {{}, {0}}, g \in Gpanos :
          Constructor(mv, g, 2, SequenceOf(<<1, 2, 3>>))
    /\ camera = CameraAt(<<1, 0, 0>>)
    /\ NavIdle
    /\ RestIdle

\* The mesh of such a node needs no request, so no mesh request event occurs.
NextNode ==
    \/ CacheAssets
    \/ ImageProgress
    \/ ImageLoad
    \/ ImageDecoded
    \/ ImageDecodeError
    \/ ImageXhrError
    \/ SetEdges
    \/ SetCached
    \/ FindNextKeyInSequence
    \/ FindPrevKeyInSequence

\* A node in the graph: assets cached, edges assigned, sequence consulted.
SpecNode == InitNode /\ [][NextNode]_vars

\* Nodes of any merge version, second in a sequence of three.
InitEdges ==
    /\ \E mv \in MergeVersions : Constructor(mv, Null, 2, SequenceOf(<<1, 2, 3>>))
    /\ camera = CameraAt(<<1, 0, 0>>)
    /\ NavIdle
    /\ RestIdle

NextEdges ==
    \/ CacheAssets
    \/ ImageProgress
    \/ ImageLoad
    \/ ImageDecoded
    \/ ImageDecodeError
    \/ ImageXhrError
    \/ MeshProgress
    \/ MeshLoad
    \/ MeshXhrError
    \/ SetEdges
    \/ FindNextKeyInSequence
    \/ FindPrevKeyInSequence

\* The edges of a node while its assets are cached and its sequence is
\* consulted.
SpecEdges == InitEdges /\ [][NextEdges]_vars

\* ------------------------------------------------- keyboard navigation
\* EdgeDirection; NoDirection is a direction variable holding null.
StepDirections == {"StepForward", "StepBackward", "StepLeft", "StepRight"}
TurnDirections == {"TurnLeft", "TurnRight", "TurnU"}
SequenceDirections == {"Next", "Prev"}
Directions == StepDirections \cup TurnDirections \cup SequenceDirections \cup {"Pano"}
NoDirection == "null"

\* The edge data, worldMotionAzimuth in degrees: forward edges to either
\* side of the x axis and on the threshold, panorama edges along x and
\* close to the wrap-around, the other step edges along their own
\* direction, turn and sequence edges along x.
EdgeData ==
    [direction : {"StepForward"}, worldMotionAzimuth : {-30, 30, 45}]
        \cup [direction : {"Pano"}, worldMotionAzimuth : {0, -170}]
        \cup {[direction |-> "StepLeft", worldMotionAzimuth |-> Pi \div 2],
              [direction |-> "StepRight", worldMotionAzimuth |-> -(Pi \div 2)],
              [direction |-> "StepBackward", worldMotionAzimuth |-> Pi]}
        \cup [direction : TurnDirections \cup SequenceDirections,
              worldMotionAzimuth : {0}]
\* The edge lists of a node: at most MaxEdges edges, the i-th leading to
\* the key i.
EdgeLists ==
    UNION {{[i \in 1..n |-> [to |-> i, data |-> d[i]]] : d \in [1..n -> EdgeData]} :
              n \in 0..MaxEdges}

\* The points the camera looks at: along x, between x and y, against x and
\* upwards.
Lookats == {<<1, 0, 0>>, <<1, 1, 0>>, <<-1, 0, 1>>}
Cameras == {CameraAt(l) : l \in Lookats}

\* The keydown events: the four arrow keys and one other key (Enter).
KeyEvents ==
    [keyCode : {KeyLeft, KeyUp, KeyRight, KeyDownArrow, 13},
     shiftKey : BOOLEAN, altKey : BOOLEAN]

Abs(x) == IF x < 0 THEN -x ELSE x
Min(x, y) == IF x < y THEN x ELSE y

\* Spatial.wrapAngle: the angle brought into (-Pi, Pi].
WrapAngleClosedBelow(a) == ((a + Pi) % (2 * Pi)) - Pi
WrapAngle(a) ==
    LET m == (a + Pi) % (2 * Pi)
    IN  IF m = 0 THEN Pi ELSE m - Pi

\* THREE.Vector3: sub, dot, multiplyScalar.
Sub(u, v) == <<u[1] - v[1], u[2] - v[2], u[3] - v[3]>>
Dot(u, v) == u[1] * v[1] + u[2] * v[2] + u[3] * v[3]
MultiplyScalar(u, k) == <<u[1] * k, u[2] * k, u[3] * k>>

\* Math.atan2(y, x) in degrees, for x and y in -1..1.
Atan2(y, x) ==
    CASE y = 0 /\ x >= 0 -> 0
      [] y = 0 /\ x < 0 -> Pi
      [] y > 0 /\ x > 0 -> Pi \div 4
      [] y > 0 /\ x = 0 -> Pi \div 2
      [] y > 0 /\ x < 0 -> 3 * (Pi \div 4)
      [] y < 0 /\ x > 0 -> -(Pi \div 4)
      [] y < 0 /\ x = 0 -> -(Pi \div 2)
      [] y < 0 /\ x < 0 -> -(3 * (Pi \div 4))

\* Spatial.angleToPlane(vector, planeNormal): the signed angle between the
\* vector and the plane, in degrees, positive on the side of the normal;
\* for vectors in the plane, along the normal, or halfway between.
AngleToPlane(v, n) ==
    LET projection == Dot(v, n)
    IN  CASE projection = 0 -> 0
          [] projection # 0 /\ projection * projection = Dot(v, v) * Dot(n, n) ->
                IF projection > 0 THEN Pi \div 2 ELSE -(Pi \div 2)
          [] projection # 0 /\ 2 * projection * projection = Dot(v, v) * Dot(n, n) ->
                IF projection > 0 THEN Pi \div 4 ELSE -(Pi \div 4)

\* _rotationFromCamera(camera): phi, the bearing of the viewing direction
\* projected on the plane orthogonal to up, and theta, its angle to the
\* vertical.
RotationFromCamera(cam) ==
    LET direction == Sub(cam.lookat, cam.position)
        upProjection == Dot(direction, cam.up)
        planeProjection == Sub(direction, MultiplyScalar(cam.up, upProjection))
        phi == Atan2(planeProjection[2], planeProjection[1])
        theta == Pi \div 2 - AngleToPlane(direction, <<0, 0, 1>>)
    IN  [phi |-> phi, theta |-> theta]

\* What handling one keydown event did.
Handled(p, t, r) == [prevented |-> p, threw |-> t, requests |-> r]
\* navigator.moveToKey(key) and navigator.moveDir(direction).
MoveToKeyCall(k) == [call |-> "moveToKey", key |-> k]
MoveDirCall(d) == [call |-> "moveDir", direction |-> d]

\* node.edges.some(edge => edge.data.direction === direction)
DirectionExistFirst(d, list) == list # <<>> /\ list[1].data.direction = d
DirectionExist(d, list) == \E i \in DOMAIN list : list[i].data.direction = d

\* _moveDir(direction, node), after preventDefault: nothing for a null
\* direction, a TypeError on null edges, navigator.moveDir(direction) when
\* some edge has the direction.
MoveDirUnchecked(d, es) ==
    IF d = NoDirection THEN Handled(TRUE, FALSE, <<>>)
    ELSE IF es = {} THEN Handled(TRUE, TRUE, <<>>)
    ELSE Handled(TRUE, FALSE, <<MoveDirCall(d)>>)
MoveDir(d, es) ==
    IF d = NoDirection THEN Handled(TRUE, FALSE, <<>>)
    ELSE IF es = {} THEN Handled(TRUE, TRUE, <<>>)
    ELSE IF ~DirectionExist(d, CHOOSE l \in es : TRUE)
         THEN Handled(TRUE, FALSE, <<>>)
         ELSE Handled(TRUE, FALSE, <<MoveDirCall(d)>>)

\* The switch of _navigatePanorama: whether the key is one of the four
\* arrows, and navigationAngle, stepDirection and sequenceDirection.
PanoramaKeys(h, a, st, sq) ==
    [handled |-> h, navigationAngle |-> a, stepDirection |-> st,
     sequenceDirection |-> sq]
PanoramaSwitch(ev, phi) ==
    CASE ev.keyCode = KeyLeft ->
            IF ev.shiftKey \/ ev.altKey
            THEN PanoramaKeys(TRUE, 0, NoDirection, NoDirection)
            ELSE PanoramaKeys(TRUE, Pi \div 2 + phi, "StepLeft", NoDirection)
      [] ev.keyCode = KeyUp ->
            IF ev.shiftKey THEN PanoramaKeys(TRUE, 0, NoDirection, NoDirection)
            ELSE IF ev.altKey THEN PanoramaKeys(TRUE, 0, NoDirection, "Next")
            ELSE PanoramaKeys(TRUE, phi, "StepForward", NoDirection)
      [] ev.keyCode = KeyRight ->
            IF ev.shiftKey \/ ev.altKey
            THEN PanoramaKeys(TRUE, 0, NoDirection, NoDirection)
            ELSE PanoramaKeys(TRUE, -(Pi \div 2) + phi, "StepRight", NoDirection)
      [] ev.keyCode = KeyDownArrow ->
            IF ev.shiftKey THEN PanoramaKeys(TRUE, 0, NoDirection, NoDirection)
            ELSE IF ev.altKey THEN PanoramaKeys(TRUE, 0, NoDirection, "Prev")
            ELSE PanoramaKeys(TRUE, Pi + phi, "StepBackward", NoDirection)
      [] OTHER -> PanoramaKeys(FALSE, 0, NoDirection, NoDirection)

\* let threshold = Math.PI / 4
Threshold == Pi \div 4
\* Number.MAX_VALUE: above every wrapped difference.
MaxValue == 2 * Pi + 1

\* The filter of the edges: the panorama edges and those of the step direction.
IsCandidateStepOnly(e, stepDirection) == e.data.direction = stepDirection
IsCandidate(e, stepDirection) ==
    e.data.direction = "Pano" \/ e.data.direction = stepDirection

\* angle < Math.min(smallestAngle, threshold)
CloserOrEqual(angle, smallestAngle, threshold) ==
    angle <= Min(smallestAngle, threshold)
CloserUnbounded(angle, smallestAngle, threshold) == angle < smallestAngle
Closer(angle, smallestAngle, threshold) == angle < Min(smallestAngle, threshold)

\* The loop over the filtered edges from the i-th on, with the smallest
\* angle and the key found so far ({} is null).
RECURSIVE NearestFrom(_, _, _, _, _)
NearestFrom(cands, navigationAngle, i, smallestAngle, toKey) ==
    IF i > Len(cands) THEN toKey
    ELSE LET angle == Abs(WrapAngle(cands[i].data.worldMotionAzimuth
                                        - navigationAngle))
         IN  IF Closer(angle, smallestAngle, Threshold)
             THEN NearestFrom(cands, navigationAngle, i + 1, angle, {cands[i].to})
             ELSE NearestFrom(cands, navigationAngle, i + 1, smallestAngle, toKey)

\* toKey of _navigatePanorama for the edge list, the step direction and the
\* unwrapped navigation angle.
SelectEdge(list, stepDirection, navigationAngle) ==
    NearestFrom(SelectSeq(list, LAMBDA e : IsCandidate(e, stepDirection)),
                WrapAngle(navigationAngle), 1, MaxValue, {})

\* _navigatePanorama(event, node, camera)
NavigatePanorama(ev, es, cam) ==
    LET k == PanoramaSwitch(ev, RotationFromCamera(cam).phi)
    IN  IF ~k.handled THEN Handled(FALSE, FALSE, <<>>)
        ELSE IF k.sequenceDirection # NoDirection
             THEN MoveDir(k.sequenceDirection, es)
        ELSE IF k.stepDirection = NoDirection THEN Handled(TRUE, FALSE, <<>>)
        ELSE IF es = {} THEN Handled(TRUE, TRUE, <<>>)
        ELSE LET toKey == SelectEdge(CHOOSE l \in es : TRUE, k.stepDirection,
                                     k.navigationAngle)
             IN  IF toKey = {} THEN Handled(TRUE, FALSE, <<>>)
                 ELSE Handled(TRUE, FALSE,
                              <<MoveToKeyCall(CHOOSE t \in toKey : TRUE)>>)

\* The switch of _navigatePerspective: whether the key is one of the four
\* arrows, and the direction.
PerspectiveKeys(h, d) == [handled |-> h, direction |-> d]
PerspectiveSwitchAltIgnored(ev) ==
    CASE ev.keyCode = KeyLeft ->
            PerspectiveKeys(TRUE, IF ev.shiftKey THEN "TurnLeft" ELSE "StepLeft")
      [] ev.keyCode = KeyUp ->
            PerspectiveKeys(TRUE, IF ev.altKey THEN "Next"
                                  ELSE IF ev.shiftKey THEN "Pano" ELSE "StepForward")
      [] ev.keyCode = KeyRight ->
            PerspectiveKeys(TRUE, IF ev.shiftKey THEN "TurnRight" ELSE "StepRight")
      [] ev.keyCode = KeyDownArrow ->
            PerspectiveKeys(TRUE, IF ev.altKey THEN "Prev"
                                  ELSE IF ev.shiftKey THEN "TurnU" ELSE "StepBackward")
      [] OTHER -> PerspectiveKeys(FALSE, NoDirection)
PerspectiveSwitch(ev) ==
    CASE ev.keyCode = KeyLeft ->
            PerspectiveKeys(TRUE, IF ev.altKey THEN NoDirection
                                  ELSE IF ev.shiftKey THEN "TurnLeft" ELSE "StepLeft")
      [] ev.keyCode = KeyUp ->
            PerspectiveKeys(TRUE, IF ev.altKey THEN "Next"
                                  ELSE IF ev.shiftKey THEN "Pano" ELSE "StepForward")
      [] ev.keyCode = KeyRight ->
            PerspectiveKeys(TRUE, IF ev.altKey THEN NoDirection
                                  ELSE IF ev.shiftKey THEN "TurnRight" ELSE "StepRight")
      [] ev.keyCode = KeyDownArrow ->
            PerspectiveKeys(TRUE, IF ev.altKey THEN "Prev"
                                  ELSE IF ev.shiftKey THEN "TurnU" ELSE "StepBackward")
      [] OTHER -> PerspectiveKeys(FALSE, NoDirection)

\* _navigatePerspective(event, node)
NavigatePerspective(ev, es) ==
    LET k == PerspectiveSwitch(ev)
    IN  IF ~k.handled THEN Handled(FALSE, FALSE, <<>>)
        ELSE MoveDir(k.direction, es)

\* The keydown subscription of _activate: the current node's pano decides
\* between the two handlers. A handler that raises ends the subscription
\* (the subscriber unsubscribes when its next callback throws, and
\* fromEvent removes the listener), so no later keydown is handled.
KeyDown ==
    /\ ~keyThrew
    /\ \E ev \in KeyEvents :
          LET h == IF ~Pano(gpano) THEN NavigatePerspective(ev, edges)
                   ELSE NavigatePanorama(ev, edges, camera)
          IN  /\ keyEvent' = ev
              /\ prevented' = h.prevented
              /\ keyThrew' = h.threw
              /\ requests' = h.requests
    /\ UNCHANGED <<cacheVars, graphVars, lookup, camera,
                   restVars>>

\* The current node of a frame: a perspective or a panorama node, its edges
\* not yet assigned or any edge list, under any of the cameras.
InitNav ==
    /\ \E g \in {Null, GpanoFull} : Constructed({}, g, 1, Undefined)
    /\ edges \in {ConstructedEdges} \cup {{l} : l \in EdgeLists}
    /\ camera \in Cameras
    /\ NavIdle
    /\ RestIdle

NextNav == KeyDown

\* Key presses on the current node of a frame.
SpecNav == InitNav /\ [][NextNav]_vars

\* ---------------------------------------------------------------- Spatial
\* The angles given to wrapAngle, in degrees.
Angles == (-(MaxTurns * 2 * Pi))..(MaxTurns * 2 * Pi)

\* spatial.wrapAngle applied to the angle, at first to any angle and then
\* to its own result.
WrapAngleStep ==
    /\ wraps < MaxWraps
    /\ angleBefore' = angleNow
    /\ angleNow' = WrapAngle(angleNow)
    /\ wraps' = wraps + 1
    /\ UNCHANGED <<cacheVars, graphVars, navVars, rotateVars, editVars>>

\* Angle-axis rotations about a coordinate axis, the angle (the length of
\* the vector) counted in quarter turns; the zero vector is no rotation.
AngleAxes ==
    UNION {{<<k, 0, 0>>, <<0, k, 0>>, <<0, 0, k>>} :
              k \in (-MaxQuarterTurns)..MaxQuarterTurns}
\* The vectors rotated.
Vectors == {<<x, y, z>> : x, y, z \in -1..1}

\* Math.cos and Math.sin of a number of quarter turns.
Cos(q) == CASE q % 4 = 0 -> 1 [] q % 4 = 2 -> -1 [] OTHER -> 0
Sin(q) == CASE q % 4 = 1 -> 1 [] q % 4 = 3 -> -1 [] OTHER -> 0

\* THREE.Vector3.length: the square root of the sum of the squares.
Length(u) == CHOOSE n \in 0..(Dot(u, u)) : n * n = Dot(u, u)
\* THREE.Vector3.normalize: the vector divided by its length, the zero
\* vector left as it is.
Normalize(u) ==
    IF Length(u) = 0 THEN u
    ELSE <<u[1] \div Length(u), u[2] \div Length(u), u[3] \div Length(u)>>

\* THREE.Matrix4.makeRotationAxis(axis, angle): the rows of the rotation
\* block (the rest of the matrix is that of the identity).
MakeRotationAxis(axis, a) ==
    LET c == Cos(a)
        s == Sin(a)
        t == 1 - c
        x == axis[1]
        y == axis[2]
        z == axis[3]
    IN  << <<t * x * x + c, t * x * y - s * z, t * x * z + s * y>>,
           <<t * x * y + s * z, t * y * y + c, t * y * z - s * x>>,
           <<t * x * z - s * y, t * y * z + s * x, t * z * z + c>> >>
\* THREE.Vector3.applyMatrix4
ApplyMatrix4(v, m) == <<Dot(m[1], v), Dot(m[2], v), Dot(m[3], v)>>

\* spatial.rotationMatrix(angleAxis): the angle is the length of the
\* vector, the axis the normalized vector.
RotationMatrixNotNormalized(angleAxis) ==
    MakeRotationAxis(angleAxis, Length(angleAxis))
RotationMatrix(angleAxis) ==
    MakeRotationAxis(Normalize(angleAxis), Length(angleAxis))

\* spatial.rotate(vector, angleAxis)
Rotate(v, angleAxis) == ApplyMatrix4(v, RotationMatrix(angleAxis))

\* The vector rotated by the rotation.
RotateStep ==
    /\ rotations = 0
    /\ vectorNow' = Rotate(vectorNow, rotation)
    /\ rotations' = 1
    /\ UNCHANGED <<cacheVars, graphVars, navVars, wrapVars, editVars, startVector,
                   rotation>>

\* The result rotated by the negated rotation.
RotateBackStep ==
    /\ rotations = 1
    /\ vectorNow' = Rotate(vectorNow, MultiplyScalar(rotation, -1))
    /\ rotations' = 2
    /\ UNCHANGED <<cacheVars, graphVars, navVars, wrapVars, editVars, startVector,
                   rotation>>

\* Any angle to wrap, or any vector and rotation; no node operation is
\* under way.
InitSpatial ==
    /\ Constructor({}, Null, 1, Undefined)
    /\ camera = CameraAt(<<1, 0, 0>>)
    /\ NavIdle
    /\ EditIdle
    /\ \/ /\ angleNow \in Angles /\ angleBefore = angleNow /\ wraps = 0
          /\ RotateIdle
       \/ /\ WrapIdle
          /\ vectorNow \in Vectors /\ startVector = vectorNow
          /\ rotation \in AngleAxes /\ rotations = 0

NextSpatial == WrapAngleStep \/ RotateStep \/ RotateBackStep

\* The Spatial operations on their own.
SpecSpatial == InitSpatial /\ [][NextSpatial]_vars

\* ------------------------------------------------------- PolygonGeometry
\* JavaScript numbers, exactly: n / d with d > 0 in lowest terms; d = 0
\* for Infinity (n = 1), -Infinity (n = -1) and NaN (n = 0).
RECURSIVE Gcd(_, _)
Gcd(a, b) == IF b = 0 THEN a ELSE Gcd(b, a % b)
Sign(n) == IF n > 0 THEN 1 ELSE IF n < 0 THEN -1 ELSE 0
Rat(n, d) ==
    IF d = 0 THEN [n |-> Sign(n), d |-> 0]
    ELSE LET g == Gcd(Abs(n), Abs(d))
         IN  [n |-> Sign(d) * (n \div g), d |-> Abs(d) \div g]
NaN == [n |-> 0, d |-> 0]
Infinity == [n |-> 1, d |-> 0]
Zero == Rat(0, 1)
One == Rat(1, 1)
IsNaN(a) == a = NaN
\* -a
Negated(a) == [n |-> -a.n, d |-> a.d]
\* a + b: NaN with a NaN and for infinities of opposite sign, an infinity
\* with an infinity.
Plus(a, b) ==
    IF IsNaN(a) \/ IsNaN(b) THEN NaN
    ELSE IF a.d = 0 /\ b.d = 0 THEN (IF a.n = b.n THEN a ELSE NaN)
    ELSE IF a.d = 0 THEN a
    ELSE IF b.d = 0 THEN b
    ELSE Rat(a.n * b.d + b.n * a.d, a.d * b.d)
\* a - b
Minus(a, b) == Plus(a, Negated(b))
\* a * b: NaN with a NaN and for 0 times an infinity.
Times(a, b) == Rat(a.n * b.n, a.d * b.d)
\* a / b: NaN with a NaN, for 0 / 0 and for two infinities; an infinity
\* over a negative number changes sign.
Over(a, b) ==
    IF a.d = 0 /\ b.d # 0 /\ b.n < 0 THEN Negated(a)
    ELSE Rat(a.n * b.d, a.d * b.n)
\* a < b and a === b: false when either is NaN.
Less(a, b) ==
    IF IsNaN(a) \/ IsNaN(b) THEN FALSE
    ELSE IF a.d = 0 /\ b.d = 0 THEN a.n < b.n
    ELSE a.n * b.d < b.n * a.d
StrictEqual(a, b) == ~IsNaN(a) /\ ~IsNaN(b) /\ a = b
\* Math.min(a, b) and Math.max(a, b): NaN when either is NaN.
MathMin(a, b) == IF IsNaN(a) \/ IsNaN(b) THEN NaN ELSE IF Less(b, a) THEN b ELSE a
MathMax(a, b) == IF IsNaN(a) \/ IsNaN(b) THEN NaN ELSE IF Less(a, b) THEN b ELSE a
\* Math.min.apply(Math, xs) and Math.max.apply(Math, xs) of a non-empty array.
RECURSIVE MinOf(_)
MinOf(xs) == IF Len(xs) = 1 THEN xs[1] ELSE MathMin(xs[1], MinOf(Tail(xs)))
RECURSIVE MaxOf(_)
MaxOf(xs) == IF Len(xs) = 1 THEN xs[1] ELSE MathMax(xs[1], MaxOf(Tail(xs)))

\* A position [x, y] with x = a / 2 and y = b / 2.
Halves(a, b) == <<Rat(a, 2), Rat(b, 2)>>
\* The positions given to the constructor: three in the unit square, one
\* left of it, one above it.
InputPositions ==
    {Halves(0, 0), Halves(2, 0), Halves(0, 1), Halves(-1, 0), Halves(0, 3)}
\* The arrays given to the constructor.
InputPolygons == UNION {[1..n -> InputPositions] : n \in 0..MaxPositions}
\* The vertices given to addVertex2d and setVertex2d: one in the square,
\* one right of it and below it.
ArgVertices == {Halves(2, 2), Halves(3, -1)}
\* The centroids given to setCentroid2d: the middle of the square, a point
\* right of it and below it, and one infinitely far above it.
ArgCentroids == {Halves(1, 1), Halves(4, -2), <<Rat(1, 2), Infinity>>}

\* vertex[0] < 0 || vertex[0] > 1 || vertex[1] < 0 || vertex[1] > 1
OutsideBasic(vertex) ==
    \/ Less(vertex[1], Zero) \/ Less(One, vertex[1])
    \/ Less(vertex[2], Zero) \/ Less(One, vertex[2])

\* this._polygon.push(vertex.slice()) for every vertex: the positions, none
\* of them an array of the input.
PushedAsGiven(polygon) == [positions |-> polygon, aliased |-> DOMAIN polygon]
PushedSlices(polygon) == [positions |-> polygon, aliased |-> {}]

\* new PolygonGeometry(polygon): throws for fewer than three positions, for
\* differing first and last positions and for a coordinate outside [0, 1].
NewPolygonGeometry(polygon) ==
    LET length == Len(polygon)
        thrown == [threw |-> TRUE, positions |-> <<>>, aliased |-> {}]
    IN  IF length < 3 THEN thrown
        ELSE IF \/ ~StrictEqual(polygon[1][1], polygon[length][1])
                \/ ~StrictEqual(polygon[1][2], polygon[length][2])
             THEN thrown
        ELSE IF \E i \in 1..length : OutsideBasic(polygon[i]) THEN thrown
        ELSE [threw |-> FALSE] @@ PushedSlices(polygon)

\* [Math.max(0, Math.min(1, v[0])), Math.max(0, Math.min(1, v[1]))]
Clamped(v) ==
    <<MathMax(Zero, MathMin(One, v[1])), MathMax(Zero, MathMin(One, v[2]))>>

\* The positions of the geometry.
Positions == CHOOSE p \in geom : TRUE

\* addVertex2d(vertex): the clamped vertex spliced in before the last
\* position.
SplicedAtEnd(p, v) == p \o <<v>>
SplicedBeforeLast(p, v) == SubSeq(p, 1, Len(p) - 1) \o <<v>> \o <<p[Len(p)]>>
AddVertex2d ==
    /\ geom # {} /\ calls < MaxCalls
    /\ \E vertex \in ArgVertices :
          /\ geom' = {SplicedBeforeLast(Positions, Clamped(vertex))}
          /\ call' = Called("addVertex2d", 0, vertex, FALSE, 1)
    /\ geomBefore' = geom
    /\ calls' = calls + 1
    /\ UNCHANGED <<cacheVars, graphVars, navVars, wrapVars, rotateVars, tagVars, input, aliased>>

\* removeVertex2d(index), index counted from 0: the positions left.
RemovedAt(p, index) ==
    SubSeq(p, 1, index) \o SubSeq(p, index + 2, Len(p))
RemovedAnywhere(p, index) == RemovedAt(p, index)
Removed(p, index) ==
    IF index > 0 /\ index < Len(p) - 1
    THEN RemovedAt(p, index)
    ELSE LET rest == SubSeq(p, 2, Len(p) - 1)
         IN  rest \o <<rest[1]>>
\* index < 0 || index >= this._polygon.length || this._polygon.length < 4
RemoveThrowsShort(p, index) == index < 0 \/ index >= Len(p)
RemoveThrows(p, index) == index < 0 \/ index >= Len(p) \/ Len(p) < 4
RemoveVertex2d ==
    /\ geom # {} /\ calls < MaxCalls
    /\ \E index \in -1..Len(Positions) :
          IF RemoveThrows(Positions, index)
          THEN /\ geom' = geom
               /\ call' = Called("removeVertex2d", index, <<>>, TRUE, 0)
          ELSE /\ geom' = {Removed(Positions, index)}
               /\ call' = Called("removeVertex2d", index, <<>>, FALSE, 1)
    /\ geomBefore' = geom
    /\ calls' = calls + 1
    /\ UNCHANGED <<cacheVars, graphVars, navVars, wrapVars, rotateVars, tagVars, input, aliased>>

\* setVertex2d(index, value, transform), index counted from 0: the clamped
\* value at the index, at both ends when the index is the first or the last.
Changed(p, index, v) ==
    IF index = 0 \/ index = Len(p) - 1
    THEN [p EXCEPT ![1] = v, ![Len(p)] = v]
    ELSE [p EXCEPT ![index + 1] = v]
SetVertex2d ==
    /\ geom # {} /\ calls < MaxCalls
    /\ \E index \in 0..(Len(Positions) - 1), value \in ArgVertices :
          /\ geom' = {Changed(Positions, index, Clamped(value))}
          /\ call' = Called("setVertex2d", index, value, FALSE, 1)
    /\ geomBefore' = geom
    /\ calls' = calls + 1
    /\ UNCHANGED <<cacheVars, graphVars, navVars, wrapVars, rotateVars, tagVars, input, aliased>>

\* _getCentroid2d(): the sums of the loop over the edges from the i-th on,
\* added to the area, centroidX and centroidY so far.
RECURSIVE CentroidSums(_, _, _)
CentroidSums(p, i, sums) ==
    IF i > Len(p) - 1 THEN sums
    ELSE LET xi == p[i][1]
             yi == p[i][2]
             xi1 == p[i + 1][1]
             yi1 == p[i + 1][2]
             a == Minus(Times(xi, yi1), Times(xi1, yi))
         IN  CentroidSums(p, i + 1,
                [area |-> Plus(sums.area, a),
                 centroidX |-> Plus(sums.centroidX, Times(Plus(xi, xi1), a)),
                 centroidY |-> Plus(sums.centroidY, Times(Plus(yi, yi1), a))])
\* _getCentroid2d(): area /= 2; centroidX /= 6 * area; centroidY /= 6 * area
GetCentroid2d(p) ==
    LET sums == CentroidSums(p, 1, [area |-> Zero, centroidX |-> Zero,
                                    centroidY |-> Zero])
        area == Over(sums.area, Rat(2, 1))
    IN  <<Over(sums.centroidX, Times(Rat(6, 1), area)),
          Over(sums.centroidY, Times(Rat(6, 1), area))>>

\* setCentroid2d(value, transform): the translation that takes the centroid
\* to the value, kept between what the least and the greatest coordinate
\* allow, and the positions moved by it.
Translation(p, value) ==
    LET xs == [i \in DOMAIN p |-> p[i][1]]
        ys == [i \in DOMAIN p |-> p[i][2]]
        centroid == GetCentroid2d(p)
        minTranslationX == Minus(Zero, MinOf(xs))
        maxTranslationX == Minus(One, MaxOf(xs))
        minTranslationY == Minus(Zero, MinOf(ys))
        maxTranslationY == Minus(One, MaxOf(ys))
    IN  <<MathMax(minTranslationX,
                  MathMin(maxTranslationX, Minus(value[1], centroid[1]))),
          MathMax(minTranslationY,
                  MathMin(maxTranslationY, Minus(value[2], centroid[2])))>>
Translated(p, value) ==
    LET t == Translation(p, value)
    IN  [i \in DOMAIN p |-> <<Plus(p[i][1], t[1]), Plus(p[i][2], t[2])>>]
SetCentroid2d ==
    /\ geom # {} /\ calls < MaxCalls
    /\ \E value \in ArgCentroids :
          /\ geom' = {Translated(Positions, value)}
          /\ call' = Called("setCentroid2d", 0, value, FALSE, 1)
    /\ geomBefore' = geom
    /\ calls' = calls + 1
    /\ UNCHANGED <<cacheVars, graphVars, navVars, wrapVars, rotateVars, tagVars, input, aliased>>

\* The caller writes to the first array of the input it gave to the
\* constructor; a position that is that array changes with it.
MutateInput ==
    /\ geom # {} /\ calls = 0
    /\ input' = [input EXCEPT ![1] = Halves(2, 2)]
    /\ geom' = IF 1 \in aliased
               THEN {[Positions EXCEPT ![1] = Halves(2, 2)]}
               ELSE geom
    /\ UNCHANGED <<cacheVars, graphVars, navVars, wrapVars, rotateVars, tagVars,
                   aliased, geomBefore, call, calls>>

\* new PolygonGeometry(polygon) for any input array.
InitPolygon ==
    /\ Constructor({}, Null, 1, Undefined)
    /\ camera = CameraAt(<<1, 0, 0>>)
    /\ NavIdle
    /\ WrapIdle
    /\ RotateIdle
    /\ TagIdle
    /\ input \in InputPolygons
    /\ LET made == NewPolygonGeometry(input)
       IN  /\ geom = IF made.threw THEN {} ELSE {made.positions}
           /\ aliased = made.aliased
           /\ call = Called("new", 0, <<>>, made.threw, 0)
    /\ geomBefore = {}
    /\ calls = 0

NextPolygon ==
    \/ AddVertex2d
    \/ RemoveVertex2d
    \/ SetVertex2d
    \/ SetCentroid2d
    \/ MutateInput

\* A polygon geometry from its construction on.
SpecPolygon == InitPolygon /\ [][NextPolygon]_vars

\* -------------------------------------------------------------- OutlineTag
\* The option properties of an outline tag.
Properties ==
    {"editable", "fillColor", "fillOpacity", "icon", "iconAlignment", "iconIndex",
     "indicateVertices", "lineColor", "lineWidth", "text", "textColor"}
\* 0xFFFFFF
White == 16777215
\* The values the options arguments give: for every property one that the
\* constructor does not use as its default, and no two colours the same.
GivenValues ==
    [editable |-> TRUE, fillColor |-> 1, fillOpacity |-> 1, icon |-> "i",
     iconAlignment |-> "Center", iconIndex |-> 4, indicateVertices |-> FALSE,
     lineColor |-> 2, lineWidth |-> 2, text |-> "t", textColor |-> 3]
\* An options object: the properties in S are present, those in N with the
\* value null ({}), the others with their value ({value}); a property not
\* in S is undefined.
OptionsOf(S, N) == [f \in S |-> IF f \in N THEN {} ELSE {GivenValues[f]}]
\* The sets of properties the options arguments have: none, one or two.
OptionSubsets == {{}} \cup {{p, q} : p, q \in Properties}

\* options.f == null, options.f === undefined, and options.f when it is
\* neither.
IsNullish(options, f) == f \notin DOMAIN options \/ options[f] = {}
IsUndefined(options, f) == f \notin DOMAIN options
ValueOf(options, f) == CHOOSE v \in options[f] : TRUE

\* new OutlineTag(id, geometry, options): the option properties; _icon and
\* _text are null ({}) or a string ({string}).
NewOutlineTag(options) ==
    [editable |-> IF IsNullish(options, "editable") THEN FALSE
                  ELSE ValueOf(options, "editable"),
     fillColor |-> IF IsNullish(options, "fillColor") THEN White
                   ELSE ValueOf(options, "fillColor"),
     fillOpacity |-> IF IsNullish(options, "fillOpacity") THEN 0
                     ELSE ValueOf(options, "fillOpacity"),
     icon |-> IF IsUndefined(options, "icon") THEN {} ELSE options["icon"],
     iconAlignment |-> IF IsNullish(options, "iconAlignment") THEN "Outer"
                       ELSE ValueOf(options, "iconAlignment"),
     iconIndex |-> IF IsNullish(options, "iconIndex") THEN 3
                   ELSE ValueOf(options, "iconIndex"),
     indicateVertices |-> IF IsNullish(options, "indicateVertices") THEN TRUE
                          ELSE ValueOf(options, "indicateVertices"),
     lineColor |-> IF IsNullish(options, "lineColor") THEN White
                   ELSE ValueOf(options, "lineColor"),
     lineWidth |-> IF IsNullish(options, "lineWidth") THEN 1
                   ELSE ValueOf(options, "lineWidth"),
     text |-> IF IsUndefined(options, "text") THEN {} ELSE options["text"],
     textColor |-> IF IsNullish(options, "textColor") THEN White
                   ELSE ValueOf(options, "textColor")]

\* The tag's option properties now and before the last call.
TagNow == CHOOSE t \in tag : TRUE
TagBefore == CHOOSE t \in tagBefore : TRUE

\* this._icon = options.icon === undefined ? this._icon : options.icon
IconKeptOnNull(t, options) ==
    IF IsNullish(options, "icon") THEN t.icon ELSE options["icon"]
IconSet(t, options) ==
    IF IsUndefined(options, "icon") THEN t.icon ELSE options["icon"]

\* setOptions(options): the option properties after the eleven assignments.
OptionsSet(t, options) ==
    [editable |-> IF IsNullish(options, "editable") THEN t.editable
                  ELSE ValueOf(options, "editable"),
     icon |-> IconSet(t, options),
     iconAlignment |-> IF IsNullish(options, "iconAlignment") THEN t.iconAlignment
                       ELSE ValueOf(options, "iconAlignment"),
     iconIndex |-> IF IsNullish(options, "iconIndex") THEN t.iconIndex
                   ELSE ValueOf(options, "iconIndex"),
     indicateVertices |-> IF IsNullish(options, "indicateVertices")
                          THEN t.indicateVertices
                          ELSE ValueOf(options, "indicateVertices"),
     lineColor |-> IF IsNullish(options, "lineColor") THEN t.lineColor
                   ELSE ValueOf(options, "lineColor"),
     lineWidth |-> IF IsNullish(options, "lineWidth") THEN t.lineWidth
                   ELSE ValueOf(options, "lineWidth"),
     fillColor |-> IF IsNullish(options, "fillColor") THEN t.fillColor
                   ELSE ValueOf(options, "fillColor"),
     fillOpacity |-> IF IsNullish(options, "fillOpacity") THEN t.fillOpacity
                     ELSE ValueOf(options, "fillOpacity"),
     text |-> IF IsUndefined(options, "text") THEN t.text ELSE options["text"],
     textColor |-> IF IsNullish(options, "textColor") THEN t.textColor
                   ELSE ValueOf(options, "textColor")]

\* tag.setOptions(options), with this._notifyChanged$.next(this) at its end.
SetOptions ==
    /\ tag # {} /\ optionCalls + setterCalls < MaxTagCalls
    /\ \E S \in OptionSubsets : \E N \in SUBSET S :
          /\ tag' = {OptionsSet(TagNow, OptionsOf(S, N))}
          /\ optionsGiven' = OptionsOf(S, N)
    /\ tagBefore' = tag
    /\ optionCalls' = optionCalls + 1
    /\ changed' = changed + 1
    /\ UNCHANGED setterCalls
    /\ UNCHANGED <<cacheVars, graphVars, navVars, wrapVars, rotateVars, polyVars>>

\* The values given to the setter of a property: the value of GivenValues,
\* and for icon and text null as well.
SetterValues(f) ==
    IF f \in {"icon", "text"} THEN {{}, {GivenValues[f]}} ELSE {GivenValues[f]}

\* tag.f = value, for each of the eleven properties f: this._f = value, then
\* this._notifyChanged$.next(this).
SetProperty ==
    /\ tag # {} /\ optionCalls + setterCalls < MaxTagCalls
    /\ \E f \in Properties : \E value \in SetterValues(f) :
          tag' = {[TagNow EXCEPT ![f] = value]}
    /\ tagBefore' = tag
    /\ setterCalls' = setterCalls + 1
    /\ changed' = changed + 1
    /\ UNCHANGED <<optionsGiven, optionCalls>>
    /\ UNCHANGED <<cacheVars, graphVars, navVars, wrapVars, rotateVars, polyVars>>

\* new OutlineTag(id, geometry, options) for any of the options objects.
InitTag ==
    /\ Constructor({}, Null, 1, Undefined)
    /\ camera = CameraAt(<<1, 0, 0>>)
    /\ NavIdle
    /\ WrapIdle
    /\ RotateIdle
    /\ PolyIdle
    /\ \E S \in OptionSubsets : \E N \in SUBSET S :
          tag = {NewOutlineTag(OptionsOf(S, N))}
    /\ optionsGiven = OptionsOf({}, {})
    /\ tagBefore = {}
    /\ optionCalls = 0
    /\ setterCalls = 0
    /\ changed = 0

NextTag ==
    \/ SetOptions
    \/ SetProperty

\* An outline tag from its construction on.
SpecTag == InitTag /\ [][NextTag]_vars

\* ------------------------------------------------------------ the claims
\* The node fields the combine function writes.
NodeFields == [image |-> image, mesh |-> mesh, loadStatus |-> loadStatus]
\* The last emission of a non-empty emission sequence.
Last(hist) == hist[Len(hist)]
\* The sum of the byte counts of the two latest emissions.
LatestSum ==
    LoadStatus(Last(imgHist).loaded.loaded + Last(meshHist).loaded.loaded,
               Last(imgHist).loaded.total + Last(meshHist).loaded.total)
\* merge_version is null or not positive: the node is not merged.
NotMergedNode == \A v \in mergeVersion : ~(v > 0)

\* C1: if the image fetch fails - the image request errors out or the
\* payload cannot be decoded - the subscriber of cacheAssets receives an
\* error event.
C1_ImageFailurePropagated ==
    imgXhr \in {"netError", "decodeError"} => outcome = "error"

\* C2: for a merged node whose mesh request ended in a network error,
\* cacheAssets completes once the image fetch has succeeded, with node.mesh
\* set to the empty mesh.
C2_MeshTransportFailureAbsorbed ==
    (~NotMergedNode /\ meshXhr = "netError" /\ imgXhr = "done")
        => (outcome = "complete" /\ mesh = EmptyMesh)

\* C3: image, mesh and loadStatus are written exactly once per
\* invocation, and only when both sub-fetches have delivered their terminal
\* value.
C3_WrittenExactlyOnce ==
    /\ writes <= 1
    /\ writes > 0 => (imgDone /\ meshDone)

\* C4: when an invocation delivers an error, image, mesh and
\* loadStatus are what they were before the invocation started.
C4_FailureLeavesNodeUntouched ==
    outcome = "error" => NodeFields = snapshot

\* C5: once an invocation has completed with image and mesh populated,
\* node.image and node.mesh are never null again.
C5_AssetsNeverDiscarded ==
    completedOnce => (image # Null /\ mesh # Null)

\* C6: completion is signalled only after both sub-fetches have reached
\* their terminal state, and node.image and node.mesh are then non-null.
C6_CompletionAfterBothTerminal ==
    outcome = "complete" =>
        /\ imgXhr = "done" /\ imgDone
        /\ meshDone
        /\ ~NotMergedNode => meshXhr = "done"
        /\ image = Image(invocations)
        /\ mesh \in {EmptyMesh, ReadMesh}

\* C6 witness: a completed invocation of a merged node.
C6_Witness == outcome = "complete" /\ ~NotMergedNode /\ mesh = ReadMesh

\* C7: for a node that is not merged, cacheMesh emits exactly one value,
\* the empty mesh with loaded = 0 and total = 0, and completes, and no mesh
\* transport request is ever issued.
C7_NotMergedEmptyMeshNoRequest ==
    NotMergedNode =>
        /\ meshRequests = 0
        /\ meshXhr = "unsent"
        /\ invocations > 0 =>
              /\ meshHist = <<LoadStatusObject(0, 0, EmptyMesh)>>
              /\ meshDone

\* C7 witness: a node with merge_version 0 whose invocation has completed.
C7_Witness == mergeVersion = {0} /\ outcome = "complete"

\* C8: when the mesh request loads with a status other than 200, cacheMesh
\* emits the empty mesh as its terminal value and completes without error;
\* cacheAssets fails only if the image could not be decoded.
C8_NonSuccessStatusGivesEmptyMesh ==
    (meshXhr = "done" /\ meshStatus # StatusOk) =>
        /\ outcome = "error" => imgXhr = "decodeError"
        /\ ~meshDone => outcome = "error"
        /\ meshDone => Last(meshHist).object = EmptyMesh

\* C8 witness: a mesh request answered 404 in an invocation that completed.
C8_Witness ==
    meshXhr = "done" /\ meshStatus # StatusOk /\ outcome = "complete"
    /\ mesh = EmptyMesh

\* C9: when cacheAssets completes, loadStatus is the sum of the final byte
\* counts of the image fetch and the mesh fetch (0/0 for a node that is not
\* merged); the initial 0/100 does not leak into it.
C9_LoadStatusIsSumOfFinals ==
    outcome = "complete" =>
        /\ loadStatus = LatestSum
        /\ Last(imgHist).loaded = imgE
        /\ NotMergedNode => loadStatus = imgE

\* C9 witness: the first invocation of a merged node completes with bytes
\* loaded on both sides.
C9_Witness ==
    /\ outcome = "complete" /\ invocations = 1 /\ ~NotMergedNode
    /\ Last(imgHist).loaded.loaded > 0 /\ Last(meshHist).loaded.loaded > 0

\* The emissions of one fetch before the last carry a null object and the
\* loaded counts never decrease.
ProgressThenTerminal(hist) ==
    \A k \in 1..(Len(hist) - 1) :
        /\ hist[k].object = Null
        /\ hist[k].loaded.loaded <= hist[k + 1].loaded.loaded

\* C10: for each single fetch every emission before the last carries a null
\* object, the loaded counts are non-decreasing, and the stream ends with
\* exactly one terminal event: the asset followed by completion, or an
\* error.  A fetch whose request has ended has delivered that terminal event
\* (unless the failure of the invocation had unsubscribed it before).
C10_SingleFetchStream ==
    /\ ProgressThenTerminal(imgHist)
    /\ ProgressThenTerminal(meshHist)
    /\ imgDone => (Last(imgHist).object # Null /\ imgXhr = "done")
    /\ meshDone => Last(meshHist).object # Null
    /\ imgXhr \in {"done", "decodeError", "netError"}
          => (imgDone \/ outcome = "error")
    /\ (meshXhr \in {"done", "netError"} /\ outcome # "error") => meshDone

\* C11: once an invocation has delivered an error, it delivers no further
\* node emission, completion or error, and writes the node no more, whatever
\* the mesh request still reports.
C11_NothingAfterError ==
    [][(outcome = "error" /\ invocations' = invocations)
          => (outcome' = "error" /\ emitted' = emitted /\ writes' = writes
              /\ image' = image /\ mesh' = mesh /\ loadStatus' = loadStatus
              /\ imgHist' = imgHist /\ meshHist' = meshHist)]_vars

\* C11 witness: the mesh request loaded after the invocation had failed,
\* and its terminal value was not delivered.
C11_Witness ==
    outcome = "error" /\ meshXhr = "done" /\ ~meshDone /\ imgLatest # NONE

\* ---- keyboard navigation: what the claims speak of
\* The edge list assigned to the current node.
EdgeList == CHOOSE l \in edges : TRUE
\* The key handled last was an arrow key with neither shift nor alt, on a
\* panorama node whose edges are assigned: an arrow-key step.
PanoramaStep ==
    /\ Pano(gpano)
    /\ edges # {}
    /\ keyEvent.keyCode \in {KeyLeft, KeyUp, KeyRight, KeyDownArrow}
    /\ ~keyEvent.shiftKey /\ ~keyEvent.altKey
\* The requested direction and the wrapped navigation angle of the step.
RequestedDirection ==
    PanoramaSwitch(keyEvent, RotationFromCamera(camera).phi).stepDirection
WrappedAngle ==
    WrapAngle(PanoramaSwitch(keyEvent,
                             RotationFromCamera(camera).phi).navigationAngle)
\* |wrapAngle(worldMotionAzimuth - a)| of the i-th edge.
Difference(i) ==
    Abs(WrapAngle(EdgeList[i].data.worldMotionAzimuth - WrappedAngle))
\* The edges of the requested direction or Pano, nearer than pi/4.
Eligible ==
    {i \in DOMAIN EdgeList :
        /\ EdgeList[i].data.direction \in {RequestedDirection, "Pano"}
        /\ 4 * Difference(i) < Pi}
\* Those of them with the least difference.
Nearest == {i \in Eligible : \A j \in Eligible : Difference(i) <= Difference(j)}

\* C12: on a panorama node an arrow-key step navigates to the target of an
\* edge that has the least wrapped difference to the navigation angle among
\* the edges of the requested direction or Pano nearer than pi/4; edges of
\* other directions and edges at pi/4 or farther are never navigated to.
C12_NearestEligibleEdge ==
    PanoramaStep =>
        /\ Eligible # {} =>
              \E i \in Nearest : requests = <<MoveToKeyCall(EdgeList[i].to)>>
        /\ \A i \in DOMAIN EdgeList \ Eligible :
              requests # <<MoveToKeyCall(EdgeList[i].to)>>
C12_Witness ==
    /\ PanoramaStep
    /\ Len(EdgeList) = 2
    /\ EdgeList[1].data.direction = "StepForward" /\ 1 \in Eligible
    /\ EdgeList[2].data.direction = "Pano"
    /\ requests = <<MoveToKeyCall(EdgeList[2].to)>>

\* C13: when several eligible edges share the least difference, the step
\* navigates to the one that comes first in the node's edge list.
C13_FirstOfEqualWins ==
    (PanoramaStep /\ Nearest # {}) =>
        \E i \in Nearest :
            /\ \A j \in Nearest : i <= j
            /\ requests = <<MoveToKeyCall(EdgeList[i].to)>>
C13_Witness ==
    /\ PanoramaStep
    /\ {1, 2} \subseteq Nearest
    /\ EdgeList[1].data.worldMotionAzimuth # EdgeList[2].data.worldMotionAzimuth
    /\ requests = <<MoveToKeyCall(EdgeList[1].to)>>

\* C14: a key press makes at most one navigator call; an arrow-key step on a
\* panorama node with no eligible edge makes none and raises nothing.
C14_MissIsSilent ==
    /\ Len(requests) <= 1
    /\ (PanoramaStep /\ Eligible = {}) => (requests = <<>> /\ ~keyThrew)
C14_Witness ==
    /\ PanoramaStep
    /\ Eligible = {}
    /\ \E i \in DOMAIN EdgeList : EdgeList[i].data.direction = RequestedDirection
    /\ \E i \in DOMAIN EdgeList : EdgeList[i].data.direction = "Pano"
    /\ prevented /\ requests = <<>> /\ ~keyThrew

\* The key handled last was up or down with alt, on a node whose edges are
\* assigned; the sequence direction it stands for.
SequenceKey ==
    /\ edges # {}
    /\ keyEvent.keyCode \in {KeyUp, KeyDownArrow}
    /\ keyEvent.altKey
SequenceKeyDirection == IF keyEvent.keyCode = KeyUp THEN "Next" ELSE "Prev"

\* C15: alt+up and alt+down request a move in the direction Next and Prev
\* exactly when the node has an edge of that direction (on a panorama node,
\* when shift is not held as well), whatever the camera and the azimuths of
\* the edges; with no such edge nothing is requested and nothing raised.
C15_SequenceMoveIgnoresAngles ==
    SequenceKey =>
        /\ ~keyThrew
        /\ requests =
              IF /\ \E i \in DOMAIN EdgeList :
                        EdgeList[i].data.direction = SequenceKeyDirection
                 /\ ~(Pano(gpano) /\ keyEvent.shiftKey)
              THEN <<MoveDirCall(SequenceKeyDirection)>>
              ELSE <<>>
C15_Witness ==
    /\ SequenceKey /\ Pano(gpano) /\ ~keyEvent.shiftKey
    /\ RotationFromCamera(camera).phi # 0
    /\ Len(EdgeList) = 2
    /\ EdgeList[1].data.direction = "Pano"
    /\ EdgeList[2].data.direction = "Prev"
    /\ requests = <<MoveDirCall("Prev")>>

\* C16: on a perspective node a key press mapped to a direction requests a
\* move in exactly that direction if and only if some edge of the node has
\* that direction, and requests nothing otherwise; the azimuths of the
\* edges play no part.
C16_PerspectiveMoveIffEdge ==
    (~Pano(gpano) /\ edges # {} /\ keyEvent # NoEvent) =>
        LET k == PerspectiveSwitch(keyEvent)
        IN  requests =
               IF /\ k.handled
                  /\ k.direction # NoDirection
                  /\ \E i \in DOMAIN EdgeList :
                        EdgeList[i].data.direction = k.direction
               THEN <<MoveDirCall(k.direction)>>
               ELSE <<>>
C16_Witness ==
    /\ ~Pano(gpano) /\ edges # {}
    /\ keyEvent = [keyCode |-> KeyUp, shiftKey |-> TRUE, altKey |-> FALSE]
    /\ Len(EdgeList) = 2
    /\ EdgeList[1].data.direction = "StepForward"
    /\ EdgeList[2] = [to |-> 2, data |-> [direction |-> "Pano",
                                          worldMotionAzimuth |-> -170]]
    /\ requests = <<MoveDirCall("Pano")>>

\* ---- the node in the graph: what the claims speak of
\* The positions of the node's own key in its sequence.
OwnPositions == {i \in DOMAIN sequence.keys : sequence.keys[i] = nodeKey}

\* C17: a sequence lookup never raises; it returns null for a node whose
\* sequence is undefined or null, and otherwise the key after (before) the
\* node's own key in the sequence, null when there is none.
C17_LookupReturnsNullWithoutSequence ==
    lookup.op # "none" =>
        /\ ~lookup.threw
        /\ sequence \in {Undefined, Null} => lookup.result = {}
        /\ sequence \notin {Undefined, Null} =>
              lookup.result =
                 {sequence.keys[j] : j \in
                     {i + (IF lookup.op = "next" THEN 1 ELSE -1) : i \in OwnPositions}
                         \cap DOMAIN sequence.keys}

\* C18: edges is null as long as the setter has not been used, the setter
\* is used at most once, no step that is not a use of the setter (no
\* cacheAssets, cacheImage, cacheMesh or sequence lookup step) changes
\* edges, and assigned edges never change.
C18_EdgesAssignedOnce ==
    /\ [](edgeWrites = 0 => edges = {})
    /\ [](edgeWrites <= 1)
    /\ [][edgeWrites' = edgeWrites => edges' = edges]_vars
    /\ [][edges # {} => edges' = edges]_vars

\* C19: loaded is true exactly when cached is true and the image is not
\* null; after a completed cacheAssets the node is not loaded until the
\* caller has set cached.
C19_LoadedIffCachedWithImage ==
    /\ Loaded(cached, image) <=> (cached = TRUE /\ image # Null)
    /\ (outcome = "complete" /\ ~cached) => ~Loaded(cached, image)
C19_Witness ==
    /\ outcome = "complete" /\ ~cached /\ image # Null
    /\ ~Loaded(cached, image)

\* C20: the image request asks for the panorama size exactly when the node
\* is a full panorama, and for the standard size otherwise, also for a
\* cropped panorama.
C20_PanoramaSizeIffFullPano ==
    invocations > 0 =>
        /\ imgSize = BasePanoramaSize <=> FullPano(gpano)
        /\ imgSize = BaseImageSize <=> ~FullPano(gpano)
        /\ (Pano(gpano) /\ ~FullPano(gpano)) => imgSize = BaseImageSize
C20_Witness ==
    /\ invocations > 0
    /\ Pano(gpano) /\ ~FullPano(gpano)
    /\ imgSize = BaseImageSize

\* ---- Spatial: what the claims speak of
\* C21: every result of wrapAngle is above -Pi and at most Pi, and
\* wrapAngle applied to a result of wrapAngle gives that result again.
C21_WrapAngleRangeIdempotent ==
    /\ wraps >= 1 => (-Pi < angleNow /\ angleNow <= Pi)
    /\ wraps >= 2 => angleNow = angleBefore
C21_Witness ==
    /\ wraps = 2
    /\ angleNow = Pi
    /\ angleBefore = Pi

\* C22: a vector rotated by an angle-axis rotation and then by the negated
\* rotation is the vector it was; the zero rotation leaves it as it is.
C22_RotateBackRoundTrip ==
    /\ rotations = 2 => vectorNow = startVector
    /\ (rotations = 1 /\ rotation = <<0, 0, 0>>) => vectorNow = startVector
C22_Witness ==
    /\ rotations = 2
    /\ rotation = <<0, 0, 3>>
    /\ startVector = <<1, 0, -1>>
    /\ vectorNow = startVector

\* ---- PolygonGeometry: what the claims speak of
\* first and last position equal, as the constructor compares them.
Closed(p) == StrictEqual(p[1][1], p[Len(p)][1]) /\ StrictEqual(p[1][2], p[Len(p)][2])
\* a number in [0, 1]
Basic(c) == ~IsNaN(c) /\ ~Less(c, Zero) /\ ~Less(One, c)

\* C23: the first and the last position of a polygon geometry are equal,
\* after construction and after every call.
C23_PolygonClosed ==
    geom # {} => Closed(Positions)

\* C24: every coordinate of every position of a polygon geometry is a
\* number in [0, 1], after construction and after every call.
C24_CoordinatesBasic ==
    geom # {} =>
        \A i \in DOMAIN Positions : Basic(Positions[i][1]) /\ Basic(Positions[i][2])

\* The positions before the last call.
PositionsBefore == CHOOSE p \in geomBefore : TRUE
\* a number brought into [0, 1]
Into01(c) == IF Less(c, Zero) THEN Zero ELSE IF Less(One, c) THEN One ELSE c

\* C25: the constructor throws and makes no geometry for an input of fewer
\* than three positions, with differing first and last positions or with a
\* coordinate outside [0, 1]; for every other input the geometry holds the
\* positions of the input in order, and stays as it is when the caller
\* writes to the input afterwards.
C25_ConstructorChecksAndCopies ==
    calls = 0 =>
        IF call.threw
        THEN /\ geom = {}
             /\ \/ Len(input) < 3
                \/ input[1] # input[Len(input)]
                \/ \E i \in DOMAIN input : ~Basic(input[i][1]) \/ ~Basic(input[i][2])
        ELSE /\ geom # {}
             /\ Len(input) >= 3
             /\ Positions = [input EXCEPT ![1] = input[Len(input)]]
             /\ \A i \in DOMAIN Positions :
                   Basic(Positions[i][1]) /\ Basic(Positions[i][2])
C25_Witness ==
    /\ calls = 0 /\ geom # {}
    /\ Len(input) = 4
    /\ input[1] # Positions[1]
    /\ Positions[2] # Positions[3]

\* C26: removeVertex2d with a negative index, an index not below the number
\* of positions, or on a polygon of fewer than four positions throws,
\* leaves the polygon as it was and notifies nothing; no polygon geometry
\* has fewer than three positions.
C26_RemoveRejectsAndKeepsThree ==
    /\ geom # {} => Len(Positions) >= 3
    /\ (call.op = "removeVertex2d"
          /\ (\/ call.index < 0
              \/ call.index >= Len(PositionsBefore)
              \/ Len(PositionsBefore) < 4))
         => (call.threw /\ geom = geomBefore /\ call.notified = 0)
C26_Witness ==
    /\ call.op = "removeVertex2d" /\ call.threw
    /\ call.index = 1
    /\ Len(Positions) = 3
    /\ geom = geomBefore

\* C27: addVertex2d(v) makes the polygon one position longer, with v
\* brought into [0, 1] right before the closing position and every other
\* position where it was.
C27_AddBeforeClosing ==
    call.op = "addVertex2d" =>
        LET n == Len(PositionsBefore)
        IN  /\ Len(Positions) = n + 1
            /\ Positions[n] = <<Into01(call.value[1]), Into01(call.value[2])>>
            /\ \A i \in 1..(n - 1) : Positions[i] = PositionsBefore[i]
            /\ Positions[n + 1] = PositionsBefore[n]
C27_Witness ==
    /\ call.op = "addVertex2d"
    /\ call.value = Halves(3, -1)
    /\ Len(Positions) = 5
    /\ Positions[4] = Halves(2, 0)
    /\ Positions[5] = Positions[1]

\* C29: removeVertex2d(i) on positions p0..pn with n >= 3 removes position
\* i alone when 0 < i < n; for i = 0 and i = n it leaves p1..p(n-1)
\* followed by p1; either way one position less, the others in order.
C29_RemoveInteriorOrShared ==
    (call.op = "removeVertex2d" /\ ~call.threw) =>
        LET p == PositionsBefore
            n == Len(p) - 1
            i == call.index
        IN  /\ Len(Positions) = n
            /\ IF 0 < i /\ i < n
               THEN \A k \in 1..n :
                       Positions[k] = IF k <= i THEN p[k] ELSE p[k + 1]
               ELSE /\ \A k \in 1..(n - 1) : Positions[k] = p[k + 1]
                    /\ Positions[n] = p[2]
C29_Witness ==
    /\ call.op = "removeVertex2d" /\ ~call.threw
    /\ call.index = 0
    /\ Len(PositionsBefore) = 4
    /\ PositionsBefore[2] # PositionsBefore[1]
    /\ PositionsBefore[3] # PositionsBefore[2]
    /\ Positions = <<PositionsBefore[2], PositionsBefore[3], PositionsBefore[2]>>

\* C28: every setOptions call gives each provided option property the
\* provided value, leaves every other property as it was and is followed
\* by exactly one changed notification; icon and text are provided when
\* they are not undefined (null clears them), every other property when it
\* is neither undefined nor null.
C28_SetOptionsChangesProvided ==
    [][optionCalls' = optionCalls + 1 =>
          /\ changed' = changed + 1
          /\ LET before == CHOOSE t \in tag : TRUE
                 after == CHOOSE t \in tag' : TRUE
             IN  \A f \in Properties :
                    LET provided ==
                           IF f \in {"icon", "text"}
                           THEN f \in DOMAIN optionsGiven'
                           ELSE f \in DOMAIN optionsGiven' /\ optionsGiven'[f] # {}
                    IN  after[f] =
                           IF ~provided THEN before[f]
                           ELSE IF f \notin {"icon", "text"} THEN GivenValues[f]
                           ELSE IF optionsGiven'[f] = {} THEN {} ELSE {GivenValues[f]}]_vars
C28_Witness ==
    /\ optionCalls = 1 /\ setterCalls = 0 /\ changed = 1
    /\ DOMAIN optionsGiven = {"icon", "lineColor"}
    /\ optionsGiven["icon"] = {}
    /\ TagBefore.icon = {"i"} /\ TagNow.icon = {}
    /\ TagBefore.lineColor = White /\ TagNow.lineColor = 2
    /\ TagBefore.text = {"t"} /\ TagNow.text = {"t"}

\* C30: once the subscriber of an invocation has unsubscribed, no progress
\* or load event of that invocation's requests changes node.image,
\* node.mesh or node.loadStatus or delivers a value to the subscriber.
C30_UnsubscribedStaysSilent ==
    [][(outcome = "unsubscribed" /\ invocations' = invocations)
          => /\ outcome' = "unsubscribed"
             /\ UNCHANGED <<image, mesh, loadStatus, emitted, writes>>]_vars
C30_Witness ==
    /\ outcome = "unsubscribed"
    /\ ~NotMergedNode
    /\ imgProgress = 1 /\ imgHist = <<>>
    /\ imgXhr = "done"
    /\ meshXhr = "done" /\ meshHist = <<>>
    /\ NodeFields = snapshot

\* ---- keyboard handling: what the claim speaks of
\* The key handled last is one of the four arrow keys.
ArrowKey == keyEvent.keyCode \in {KeyLeft, KeyUp, KeyRight, KeyDownArrow}
\* The directions of the arrows on a perspective node, with shift and plain.
TurnOf(keyCode) ==
    CASE keyCode = KeyLeft -> "TurnLeft"
      [] keyCode = KeyUp -> "Pano"
      [] keyCode = KeyRight -> "TurnRight"
      [] keyCode = KeyDownArrow -> "TurnU"
StepOf(keyCode) ==
    CASE keyCode = KeyLeft -> "StepLeft"
      [] keyCode = KeyUp -> "StepForward"
      [] keyCode = KeyRight -> "StepRight"
      [] keyCode = KeyDownArrow -> "StepBackward"
\* Nothing was asked of the navigator and nothing raised.
NothingRequested == requests = <<>> /\ ~keyThrew

\* C31: a key that is not an arrow leads to no navigator call and no
\* preventDefault; on a panorama node an arrow with shift, and left or right
\* with alt, lead to no navigator call; on a perspective node left or right
\* with alt lead to none, and an arrow without alt leads to no call but
\* moveDir in the direction of the table (TurnLeft, Pano, TurnRight, TurnU
\* with shift; StepLeft, StepForward, StepRight, StepBackward plain), which
\* is made when the node has an edge of that direction.
C31_KeyTable ==
    keyEvent # NoEvent =>
        /\ ~ArrowKey => (NothingRequested /\ ~prevented)
        /\ (/\ ArrowKey /\ Pano(gpano)
            /\ \/ keyEvent.shiftKey
               \/ keyEvent.altKey /\ keyEvent.keyCode \in {KeyLeft, KeyRight})
              => NothingRequested
        /\ (/\ ArrowKey /\ ~Pano(gpano)
            /\ keyEvent.altKey /\ keyEvent.keyCode \in {KeyLeft, KeyRight})
              => NothingRequested
        /\ (ArrowKey /\ ~Pano(gpano) /\ ~keyEvent.altKey) =>
              LET d == IF keyEvent.shiftKey THEN TurnOf(keyEvent.keyCode)
                       ELSE StepOf(keyEvent.keyCode)
              IN  /\ \A i \in DOMAIN requests : requests[i] = MoveDirCall(d)
                  /\ (/\ edges # {}
                      /\ \E i \in DOMAIN EdgeList : EdgeList[i].data.direction = d)
                        => requests = <<MoveDirCall(d)>>
C31_Witness ==
    /\ ~Pano(gpano) /\ edges # {}
    /\ keyEvent = [keyCode |-> KeyLeft, shiftKey |-> TRUE, altKey |-> FALSE]
    /\ Len(EdgeList) = 2
    /\ EdgeList[1].data.direction = "StepLeft"
    /\ EdgeList[2].data.direction = "TurnLeft"
    /\ prevented
    /\ requests = <<MoveDirCall("TurnLeft")>>

====
